---- MODULE Spec2Model ----
(***************************************************************************)
(* A model of deeptexture/dtr.py: the DTR object (its attributes after     *)
(* __init__), and its methods forward, get_dtr, get_dtr_multifiles, sim    *)
(* and get_mean_dtrs, one action per call.  A call either returns a value  *)
(* or raises; `out` holds what the last call did.                          *)
(*                                                                         *)
(* Library calls (cv2.resize, scipy rotate, numpy, torchvision transforms) *)
(* are modelled by their documented behaviour on shapes; attribute         *)
(* assignments in __init__ are plain Python assignments.  Tensors and      *)
(* images are modelled by their shapes and by where they came from,        *)
(* descriptor rows of get_mean_dtrs by integer vectors.                    *)
(***************************************************************************)
EXTENDS Integers, Sequences, FiniteSets, TLC

VARIABLES self, call, out

vars == <<self, call, out>>

-----------------------------------------------------------------------------
(* Bounds of the model *)

MaxBatch == 2
MaxAngles == 2
MaxFiles == 2
MaxRows == 3

-----------------------------------------------------------------------------
(* Python values *)

\* None is the empty option, Some(v) a present value.
None == <<>>
Some(v) == <<v>>

Raise(kind, line) == [err |-> kind, line |-> line]
Raised(r) == r.err # "none"

\* A projection matrix: generated by np.random.randint after np.random.seed(seed),
\* or handed in by the caller (id tells two supplied matrices apart).
Seeded(seed, rows, cols) == [kind |-> "seeded", seed |-> seed, id |-> 0, rows |-> rows, cols |-> cols]
Supplied(id) == [kind |-> "supplied", seed |-> 0, id |-> id, rows |-> 0, cols |-> 0]

\* An instance is the function from its bound attribute names to their values.
NoInstance == <<>>
HasAttr(o, name) == name \in DOMAIN o
SetAttr(o, name, v) == (name :> v) @@ o

-----------------------------------------------------------------------------
(* DTR.__init__ *)

Archs == {"vgg", "resnet"}
Layers == {"block3_conv3", "block4_conv3", "block5_conv3"}
Dims == {2, 3}
Rand1Args == {None, Some(Supplied(1))}
Rand2Args == {None, Some(Supplied(2))}

\* out_channels of vgg16.features[i-2], the last convolution before index i.
OutChannels(i) == IF i = 16 THEN 256 ELSE 512

\* Lines 51-56: the slice index of the layer; 0 stands for the raise.
LayerIndex(layer) ==
    IF layer = "block3_conv3" THEN 16
    ELSE IF layer = "block4_conv3" THEN 23
    ELSE 0

\* Lines 63-66: self.rand_1 is assigned inside the `if rand_1 is None` block only.
InitRand1(o, rand_1) ==
    IF rand_1 = None
    THEN SetAttr(o, "rand_1", Seeded(128, o.input_dim, o.output_dim))
    ELSE o

\* Lines 68-71: the same for rand_2.
InitRand2(o, rand_2) ==
    IF rand_2 = None
    THEN SetAttr(o, "rand_2", Seeded(1997, o.input_dim, o.output_dim))
    ELSE o

\* The whole constructor: the instance it leaves, or the raise.
\* `raise ("...")` raises a str, which Python turns into a TypeError.
NewDTR(arch, layer, dim, rand_1, rand_2) ==
    IF arch # "vgg" THEN [res |-> Raise("TypeError", 49), obj |-> NoInstance]
    ELSE IF LayerIndex(layer) = 0 THEN [res |-> Raise("TypeError", 56), obj |-> NoInstance]
    ELSE LET i  == LayerIndex(layer)
             o1 == [device |-> "cuda:0", depth |-> i,
                    input_dim |-> OutChannels(i), output_dim |-> dim]
             o2 == InitRand1(o1, rand_1)
             o3 == InitRand2(o2, rand_2)
             o4 == SetAttr(SetAttr(o3, "normalize", "Normalize"), "prep", "Compose")
         IN [res |-> [err |-> "none"], obj |-> o4]

-----------------------------------------------------------------------------
(* DTR.forward *)

\* A tensor: its shape [B, C, H, W] and what produced it.
Tensor(src, shape) == [src |-> src, shape |-> shape]

\* Lines 89-103.  Line 89 reads self.input_dim1, lines 95-96 self.rand_1 and
\* self.rand_2; reading an attribute the instance does not have raises.
\* The pooled value is kept symbolically: the mean over H and W of
\* (bottom . rand_1) * (bottom . rand_2).
forward(o, bottom) ==
    IF ~HasAttr(o, "input_dim1") THEN Raise("AttributeError", 89)
    ELSE IF bottom.shape[2] # o.input_dim1 THEN Raise("AssertionError", 89)
    ELSE IF ~HasAttr(o, "rand_1") THEN Raise("AttributeError", 95)
    ELSE IF ~HasAttr(o, "rand_2") THEN Raise("AttributeError", 96)
    ELSE [err |-> "none",
          shape |-> <<bottom.shape[1], o.output_dim>>,
          normalized |-> FALSE,
          val |-> [kind |-> "cbp", of |-> bottom, p1 |-> o.rand_1, p2 |-> o.rand_2]]

-----------------------------------------------------------------------------
(* DTR.get_dtr *)

\* An image argument: a file name, a numpy array or a PIL image of h x w pixels.
ImgTypes == {"str", "ndarray", "PIL"}
ImgShapes == {<<2, 4>>, <<4, 4>>}
Image(type, h, w) == [type |-> type, h |-> h, w |-> w]
Images == {Image(t, s[1], s[2]) : t \in ImgTypes, s \in ImgShapes}

\* Lines 124-130: every accepted argument becomes an h x w x 3 array.
AsArray(img) == [h |-> img.h, w |-> img.w]

\* A scale is the ratio num/den (den a power of two, exact as a float);
\* int(n * scale) truncates.
Scales == {<<1, 2>>, <<3, 2>>}
IntTimes(n, scale) == (n * scale[1]) \div scale[2]

\* cv2.resize(x, dsize): dsize is (width, height); an empty size is an error.
cv2_resize(x, dsize, line) ==
    IF dsize[1] <= 0 \/ dsize[2] <= 0 THEN Raise("cv2.error", line)
    ELSE [err |-> "none", h |-> dsize[2], w |-> dsize[1]]

\* Line 136: dsize=[int(h*scale), int(w*scale)].
ScaleDsize(x, scale) == <<IntTimes(x.h, scale), IntTimes(x.w, scale)>>

\* Lines 132-136: the resize step.
Resize(x, size, scale) ==
    IF size # None THEN cv2_resize(x, <<size[1], size[1]>>, 133)
    ELSE IF scale # None THEN cv2_resize(x, ScaleDsize(x, scale[1]), 136)
    ELSE [err |-> "none", h |-> x.h, w |-> x.w]

\* scipy.ndimage.rotate(x, angle) with its default reshape=True, for the
\* multiples of 90 degrees the model draws.
rotate(x, angle) ==
    IF angle % 180 = 90 THEN [h |-> x.w, w |-> x.h] ELSE [h |-> x.h, w |-> x.w]

\* Lines 157-158: ToTensor, Normalize, unsqueeze_(0).
prep(x) == Tensor("prep", <<1, 3, x.h, x.w>>)

\* Angle arguments.
IntAngle(n) == [t |-> "int", v |-> n]
ListAngle(s) == [t |-> "list", elems |-> s]
NoAngle == [t |-> "none"]
FloatAngle == [t |-> "float"]

\* What get_dtr hands back: the returned value or the raise (res), the
\* tensors forward was called on, in order (fwd), and the array after the
\* resize step of this call (x; None when the call did not get there).
Done(res, fwd, x) == [res |-> res, fwd |-> fwd, x |-> x]

RECURSIVE get_dtr(_, _, _, _, _, _)
RECURSIVE Fanout(_, _, _, _, _, _, _, _, _)

\* Line 148, the list comprehension from element i on: rows are the
\* descriptors so far, fwd the forward calls so far.  A raise in one
\* element ends the comprehension.
Fanout(o, img, angles, size, scale, multi_scale, i, rows, fwd) ==
    IF i > Len(angles) THEN Done([err |-> "none", rows |-> rows], fwd, None)
    ELSE LET r == get_dtr(o, img, angles[i], size, scale, multi_scale)
         IN IF Raised(r.res) THEN Done(r.res, fwd \o r.fwd, None)
            ELSE Fanout(o, img, angles, size, scale, multi_scale, i + 1,
                        Append(rows, r.res), fwd \o r.fwd)

\* Lines 148-150: np.vstack of the rows (no row: ValueError), their mean
\* over axis 0, divided by its L2 norm.
MeanOfAngles(rows) ==
    IF rows = <<>> THEN Raise("ValueError", 148)
    ELSE [err |-> "none",
          shape |-> <<rows[1].shape[Len(rows[1].shape)]>>,
          normalized |-> TRUE,
          val |-> [kind |-> "mean/norm", of |-> [k \in 1..Len(rows) |-> rows[k].val]]]

\* Lines 124-167.  With multi_scale, line 140 calls cv2.resize with the
\* keyword `dize`, which cv2.resize does not have: it raises there, so
\* lines 145-146 and 161-165 are never run.
get_dtr(o, img, angle, size, scale, multi_scale) ==
    LET x0 == AsArray(img)
        x1 == Resize(x0, size, scale)
    IN  IF Raised(x1) THEN Done(x1, <<>>, None)
        ELSE LET x == [h |-> x1.h, w |-> x1.w] IN
        IF multi_scale THEN Done(Raise("TypeError", 140), <<>>, Some(x))
        ELSE IF angle.t = "list" THEN
            LET f == Fanout(o, img, angle.elems, size, scale, multi_scale, 1, <<>>, <<>>)
            IN IF Raised(f.res) THEN Done(f.res, f.fwd, Some(x))
               ELSE Done(MeanOfAngles(f.res.rows), f.fwd, Some(x))
        ELSE IF angle.t \notin {"none", "int"} THEN Done(Raise("Exception", 152), <<>>, Some(x))
        ELSE LET xr == IF angle.t = "int" THEN rotate(x, angle.v) ELSE x
                 t  == prep(xr)
             IN Done(forward(o, t), <<t>>, Some(x))

\* Lines 184-203: get_dtr of each file in turn (multi_scale left at its
\* default), stacked; a raise in one file ends the comprehension.
RECURSIVE Multifiles(_, _, _, _, _, _, _, _)
Multifiles(o, imgfiles, angle, size, scale, i, rows, fwd) ==
    IF i > Len(imgfiles) THEN Done([err |-> "none", rows |-> rows], fwd, None)
    ELSE LET r == get_dtr(o, imgfiles[i], angle, size, scale, FALSE)
         IN IF Raised(r.res) THEN Done(r.res, fwd \o r.fwd, None)
            ELSE Multifiles(o, imgfiles, angle, size, scale, i + 1,
                            Append(rows, r.res), fwd \o r.fwd)

get_dtr_multifiles(o, imgfiles, angle, size, scale) ==
    LET f == Multifiles(o, imgfiles, angle, size, scale, 1, <<>>, <<>>)
    IN IF Raised(f.res) THEN f
       ELSE IF f.res.rows = <<>> THEN Done(Raise("ValueError", 201), f.fwd, None)
       ELSE Done([err |-> "none",
                  shape |-> <<Len(f.res.rows), f.res.rows[1].shape[Len(f.res.rows[1].shape)]>>,
                  normalized |-> FALSE,
                  val |-> [kind |-> "vstack", of |-> [k \in 1..Len(f.res.rows) |-> f.res.rows[k].val]]],
                 f.fwd, None)

-----------------------------------------------------------------------------
(* Vectors of integers *)

RECURSIVE SumTo(_, _)
\* f[1] + ... + f[n]
SumTo(f, n) == IF n = 0 THEN 0 ELSE f[n] + SumTo(f, n - 1)

Dot(x, y) == SumTo([c \in 1..Len(x) |-> x[c] * y[c]], Len(x))

\* np.linalg.norm(x, 2) of a vector whose norm is an integer.
Norm(x) == CHOOSE n \in 0..Dot(x, x) : n * n = Dot(x, x)

\* The descriptors drawn: integer vectors with an integer, non-zero L2 norm.
Descs == {<<1, 0>>, <<-1, 0>>, <<3, 4>>}

-----------------------------------------------------------------------------
(* DTR.sim *)

\* Lines 181-182: dot(x, y) / (norm(x) * norm(y)) as the fraction num/den;
\* a zero norm divides by zero, which numpy answers with nan.
sim(x, y) ==
    IF Norm(x) * Norm(y) = 0 THEN [err |-> "none", nan |-> TRUE, num |-> 0, den |-> 0]
    ELSE [err |-> "none", nan |-> FALSE, num |-> Dot(x, y), den |-> Norm(x) * Norm(y)]

-----------------------------------------------------------------------------
(* DTR.get_mean_dtrs *)

\* Case ids; a smaller number stands for a string that sorts earlier.
Labels == {1, 2, 3}

RemoveAt(s, i) == [k \in 1..(Len(s) - 1) |-> IF k < i THEN s[k] ELSE s[k + 1]]

RECURSIVE np_sort(_)
\* np.sort of a sequence: ascending, every occurrence kept.
np_sort(s) ==
    IF s = <<>> THEN <<>>
    ELSE LET i == CHOOSE i \in DOMAIN s : \A j \in DOMAIN s : s[i] <= s[j]
         IN <<s[i]>> \o np_sort(RemoveAt(s, i))

RECURSIVE SetToSeq(_)
SetToSeq(S) == IF S = {} THEN <<>> ELSE LET x == CHOOSE x \in S : TRUE IN <<x>> \o SetToSeq(S \ {x})

\* np.unique of a sequence: its distinct elements, ascending.
np_unique(s) == np_sort(SetToSeq({s[i] : i \in DOMAIN s}))

\* Line 223.
UCases(cases) == np_sort(np_unique(cases))

\* Line 224 with the mask forgotten: every row is taken for every case.
GroupRowsAll(cases, case) == DOMAIN cases

\* Line 224, np.array(cases)==case: the positions of the rows of a case.
GroupRows(cases, case) == {i \in DOMAIN cases : cases[i] = case}

RECURSIVE SumOver(_, _)
\* The sum of f[i] over the i in I.
SumOver(f, I) == IF I = {} THEN 0 ELSE LET i == CHOOSE i \in I : TRUE IN f[i] + SumOver(f, I \ {i})

\* Line 224, np.mean(dtrs[mask, :], axis=0): the column sums over the
\* number of rows, kept as the fraction num/den.
np_mean(dtrs, I) ==
    [num |-> [c \in 1..Len(dtrs[1]) |-> SumOver([i \in I |-> dtrs[i][c]], I)],
     den |-> Cardinality(I)]

\* Line 224: one mean row per case of u_cases, in that order.
GroupMeans(dtrs, cases, u_cases) ==
    [k \in 1..Len(u_cases) |-> np_mean(dtrs, GroupRows(cases, u_cases[k]))]

\* Line 225: the stacked means divided by np.linalg.norm(dtrs_mean, ord=2),
\* which for a 2-D array is its largest singular value.  The quotient is
\* kept as the pair (rows, the norm they are divided by).
Normalized(mean) == [rows |-> mean, over |-> "norm(ord=2) of the matrix"]

\* get_medoid of .utils: for every case the position, in the full input, of
\* the member with the largest total cosine similarity to the other members
\* of its case, the lowest position on a tie.  The totals are compared
\* exactly: every term is scaled by the square of the product of all norms.
get_medoid(dtrs, cases) ==
    LET N == Len(dtrs)
        P == IF N = 0 THEN 1 ELSE
             LET RECURSIVE Prod(_)
                 Prod(n) == IF n = 0 THEN 1 ELSE Norm(dtrs[n]) * Prod(n - 1)
             IN Prod(N)
        Total(i) == LET G == {j \in 1..N : cases[j] = cases[i] /\ j # i}
                    IN SumOver([j \in G |-> Dot(dtrs[i], dtrs[j])
                                             * ((P * P) \div (Norm(dtrs[i]) * Norm(dtrs[j])))], G)
    IN [case \in {cases[i] : i \in 1..N} |->
          CHOOSE i \in 1..N :
            /\ cases[i] = case
            /\ \A j \in 1..N : cases[j] = case =>
                  \/ Total(i) > Total(j)
                  \/ Total(i) = Total(j) /\ i <= j]

\* A side table: a list or a DataFrame, one attribute row per image.
SideTable(type, rows) == [type |-> type, rows |-> rows]

\* Lines 229-237 with the rows taken by position in u_cases instead of at
\* the medoid.
DfMeanByPosition(df, medoid_dict, u_cases) ==
    IF df = None THEN None
    ELSE Some(SideTable(df[1].type, [k \in 1..Len(u_cases) |-> df[1].rows[k]]))

\* Lines 229-237: df[medoid_dict[case]] for case in u_cases (a list), or
\* df.iloc at those positions (a DataFrame); None without a side table.
DfMean(df, medoid_dict, u_cases) ==
    IF df = None THEN None
    ELSE Some(SideTable(df[1].type,
                        [k \in 1..Len(u_cases) |-> df[1].rows[medoid_dict[u_cases[k]]]]))

\* Lines 223-239.  np.vstack of no row (no case at all) raises.
get_mean_dtrs(dtrs, cases, df) ==
    LET u_cases == UCases(cases)
    IN IF u_cases = <<>> THEN Raise("ValueError", 224)
       ELSE LET dtrs_mean   == Normalized(GroupMeans(dtrs, cases, u_cases))
                medoid_dict == get_medoid(dtrs, cases)
            IN [err |-> "none",
                dtrs_mean |-> dtrs_mean,
                u_cases |-> u_cases,
                df_mean |-> DfMean(df, medoid_dict, u_cases)]

-----------------------------------------------------------------------------
(* The calls a program makes *)

SeqsUpTo(S, n) == UNION {[1..k -> S] : k \in 0..n}

Live(o) == DOMAIN o # {}

\* The caller is between two calls: the last result has been taken.
Idle == call.op = "none"

Init ==
    /\ self = NoInstance
    /\ call = [op |-> "none"]
    /\ out = Done([err |-> "none"], <<>>, None)

\* DTR(arch, layer, dim, rand_1, rand_2): a constructor that raises leaves
\* no instance.
Construct ==
    /\ Idle
    /\ ~Live(self)
    /\ \E arch \in Archs, layer \in Layers, dim \in Dims,
          rand_1 \in Rand1Args, rand_2 \in Rand2Args :
          LET r == NewDTR(arch, layer, dim, rand_1, rand_2)
          IN /\ self' = r.obj
             /\ call' = [op |-> "__init__", arch |-> arch, layer |-> layer, dim |-> dim,
                         rand_1 |-> rand_1, rand_2 |-> rand_2]
             /\ out' = Done(r.res, <<>>, None)

Channels == {3, 256, 512}
Spatial == {<<1, 1>>, <<2, 2>>}

\* self.forward(bottom) on a feature tensor of the caller's.
Forward ==
    /\ Idle
    /\ Live(self)
    /\ \E B \in 1..MaxBatch, C \in Channels, hw \in Spatial :
          LET bottom == Tensor("caller", <<B, C, hw[1], hw[2]>>)
          IN /\ call' = [op |-> "forward", bottom |-> bottom]
             /\ out' = Done(forward(self, bottom), <<bottom>>, None)
    /\ UNCHANGED self

AngleAtoms == {NoAngle, IntAngle(0), IntAngle(90), FloatAngle}
AngleElems == AngleAtoms \cup {ListAngle(<<IntAngle(0)>>)}
Angles == AngleAtoms \cup {ListAngle(s) : s \in SeqsUpTo(AngleElems, MaxAngles)}
Sizes == {None, Some(2)}
ScaleArgs == {None} \cup {Some(s) : s \in Scales}

\* self.get_dtr(img, angle, size, scale, multi_scale)
GetDtr ==
    /\ Idle
    /\ Live(self)
    /\ \E img \in Images, angle \in Angles, size \in Sizes, scale \in ScaleArgs,
          multi_scale \in BOOLEAN :
          /\ call' = [op |-> "get_dtr", img |-> img, angle |-> angle, size |-> size,
                      scale |-> scale, multi_scale |-> multi_scale]
          /\ out' = get_dtr(self, img, angle, size, scale, multi_scale)
    /\ UNCHANGED self

\* self.get_dtr_multifiles(imgfiles, angle, size, scale)
GetDtrMultifiles ==
    /\ Idle
    /\ Live(self)
    /\ \E imgfiles \in SeqsUpTo({i \in Images : i.type = "str"}, MaxFiles),
          angle \in Angles, size \in Sizes, scale \in ScaleArgs :
          /\ call' = [op |-> "get_dtr_multifiles", imgfiles |-> imgfiles, angle |-> angle,
                      size |-> size, scale |-> scale]
          /\ out' = get_dtr_multifiles(self, imgfiles, angle, size, scale)
    /\ UNCHANGED self

\* self.sim(x, y)
Sim ==
    /\ Idle
    /\ Live(self)
    /\ \E x \in Descs \cup {<<0, 0>>}, y \in Descs \cup {<<0, 0>>} :
          /\ call' = [op |-> "sim", x |-> x, y |-> y]
          /\ out' = Done(sim(x, y), <<>>, None)
    /\ UNCHANGED self

\* The side tables for N images: none, a list, a DataFrame; the attribute
\* row of image i is <<"row", i>>.
SideTables(N) ==
    {None} \cup {Some(SideTable(t, [i \in 1..N |-> <<"row", i>>])) : t \in {"list", "DataFrame"}}

\* self.get_mean_dtrs(dtrs, cases, df) on N aligned rows, cases and
\* attribute rows.
GetMeanDtrs ==
    /\ Idle
    /\ Live(self)
    /\ \E N \in 0..MaxRows :
          \E dtrs \in [1..N -> Descs], cases \in [1..N -> Labels], df \in SideTables(N) :
             /\ call' = [op |-> "get_mean_dtrs", dtrs |-> dtrs, cases |-> cases, df |-> df]
             /\ out' = Done(get_mean_dtrs(dtrs, cases, df), <<>>, None)
    /\ UNCHANGED self

\* The caller takes the result of the call (the value or the exception).
Return ==
    /\ ~Idle
    /\ call' = [op |-> "none"]
    /\ out' = Done([err |-> "none"], <<>>, None)
    /\ UNCHANGED self

Next ==
    \/ Construct
    \/ Forward
    \/ GetDtr
    \/ GetDtrMultifiles
    \/ Sim
    \/ GetMeanDtrs
    \/ Return

Spec == Init /\ [][Next]_vars

\* The aggregation calls on a default-constructed instance, DTR().
InitAgg ==
    /\ self = NewDTR("vgg", "block3_conv3", 1024, None, None).obj
    /\ call = [op |-> "none"]
    /\ out = Done([err |-> "none"], <<>>, None)

NextAgg ==
    \/ Sim
    \/ GetMeanDtrs
    \/ Return

SpecAgg == InitAgg /\ [][NextAgg]_vars

-----------------------------------------------------------------------------
(* Properties *)

Ok == out.res.err = "none"

\* The number of entries of an array of the given shape.
RECURSIVE Entries(_)
Entries(shape) == IF shape = <<>> THEN 1 ELSE Head(shape) * Entries(Tail(shape))

\* C1: forward accepts a tensor [B, C, H, W] whose C is the input_dim set at
\* construction: it never fails for it, and returns a [B, output_dim]
\* result.
C1_ForwardAcceptsMatchingChannels ==
    (call.op = "forward" /\ call.bottom.shape[2] = self.input_dim) =>
        Ok /\ out.res.shape = <<call.bottom.shape[1], self.output_dim>>

\* C2: in a single-variant run of get_dtr the pooling engine (forward) is
\* only applied to the output of the feature extractor, never to the
\* preprocessed 3-channel image tensor.
C2_PoolingOnlyOnFeatures ==
    (call.op = "get_dtr" /\ call.angle.t # "list") =>
        \A i \in DOMAIN out.fwd : out.fwd[i].src = "features" /\ out.fwd[i].shape[2] # 3

\* C3: after construction the instance holds both projection matrices: a
\* supplied one is the matrix held, an omitted one is generated from its
\* seed (128 for rand_1, 1997 for rand_2).
C3_HoldsBothMatrices ==
    (call.op = "__init__" /\ Ok) =>
        /\ HasAttr(self, "rand_1") /\ HasAttr(self, "rand_2")
        /\ IF call.rand_1 = None THEN self.rand_1.kind = "seeded" /\ self.rand_1.seed = 128
                                 ELSE self.rand_1 = call.rand_1[1]
        /\ IF call.rand_2 = None THEN self.rand_2.kind = "seeded" /\ self.rand_2.seed = 1997
                                 ELSE self.rand_2 = call.rand_2[1]

\* The part of C3 the code keeps: no call on a live instance changes an
\* attribute of it.
InstanceNeverChanges == [][Live(self) => self' = self]_vars

\* C4: get_mean_dtrs returns the distinct cases ascending and without
\* duplicates, one mean row per distinct case, and row k is (before the
\* normalization) the arithmetic mean of exactly the input rows of case k.
C4_SortedCasesAndGroupMeans ==
    (call.op = "get_mean_dtrs" /\ Ok) =>
        LET u == out.res.u_cases
            m == out.res.dtrs_mean.rows
            N == Len(call.cases)
            Count(k) == SumTo([i \in 1..N |-> IF call.cases[i] = u[k] THEN 1 ELSE 0], N)
            ColSum(k, c) == SumTo([i \in 1..N |-> IF call.cases[i] = u[k] THEN call.dtrs[i][c] ELSE 0], N)
        IN /\ \A k \in 1..(Len(u) - 1) : u[k] < u[k + 1]
           /\ {u[k] : k \in 1..Len(u)} = {call.cases[i] : i \in 1..N}
           /\ Len(m) = Len(u)
           /\ \A k \in 1..Len(m) :
                 /\ m[k].den > 0 /\ Count(k) > 0
                 /\ Len(m[k].num) = Len(call.dtrs[1])
                 /\ \A c \in 1..Len(m[k].num) : m[k].num[c] * Count(k) = m[k].den * ColSum(k, c)

\* Cases given out of order, and a case with two different rows.
C4_Witness ==
    /\ call.op = "get_mean_dtrs" /\ Ok
    /\ Len(out.res.u_cases) = 2
    /\ call.cases[1] > call.cases[2]
    /\ \E i, j \in 1..Len(call.cases) :
          i # j /\ call.cases[i] = call.cases[j] /\ call.dtrs[i] # call.dtrs[j]

\* The rows of a matrix of fractions brought to one denominator.
ScaledRows(m) ==
    LET RECURSIVE Den(_)
        Den(n) == IF n = 0 THEN 1 ELSE m[n].den * Den(n - 1)
    IN [k \in 1..Len(m) |-> [c \in 1..Len(m[k].num) |-> m[k].num[c] * (Den(Len(m)) \div m[k].den)]]

RECURSIVE Det(_, _, _)
\* The determinant of the rows and columns of A listed, by its first row.
Det(A, rows, cols) ==
    IF rows = <<>> THEN 1
    ELSE SumTo([j \in 1..Len(cols) |->
                  (IF j % 2 = 1 THEN 1 ELSE -1) * A[rows[1]][cols[j]]
                  * Det(A, Tail(rows), RemoveAt(cols, j))], Len(cols))

\* t is the square of the largest singular value of the matrix with rows R:
\* t*I - R*R^T is singular and positive semidefinite (every principal minor
\* is non-negative).
IsNorm2Squared(R, t) ==
    LET n == Len(R)
        B == [i \in 1..n |-> [j \in 1..n |-> (IF i = j THEN t ELSE 0) - Dot(R[i], R[j])]]
    IN /\ Det(B, [i \in 1..n |-> i], [i \in 1..n |-> i]) = 0
       /\ \A T \in SUBSET (1..n) : Det(B, np_sort(SetToSeq(T)), np_sort(SetToSeq(T))) >= 0

\* Row k of rows / norm has L2 norm 1: the norm the rows are divided by is
\* the L2 norm of row k, and it is not zero.
RowHasUnitNorm(dtrs_mean, k) ==
    LET R == ScaledRows(dtrs_mean.rows)
    IN Dot(R[k], R[k]) > 0 /\ IsNorm2Squared(R, Dot(R[k], R[k]))

NonZeroMeans(dtrs_mean) ==
    \A k \in 1..Len(dtrs_mean.rows) : \E c \in 1..Len(dtrs_mean.rows[k].num) : dtrs_mean.rows[k].num[c] # 0

\* C5: every row of the mean matrix get_mean_dtrs returns has L2 norm 1,
\* for any number of cases with non-zero means.
C5_EveryMeanRowUnitNorm ==
    (call.op = "get_mean_dtrs" /\ Ok /\ NonZeroMeans(out.res.dtrs_mean)) =>
        \A k \in 1..Len(out.res.dtrs_mean.rows) : RowHasUnitNorm(out.res.dtrs_mean, k)

\* The part of C5 the code keeps: with a single case the one row has norm 1.
C5_SingleCaseUnitNorm ==
    (call.op = "get_mean_dtrs" /\ Ok /\ NonZeroMeans(out.res.dtrs_mean)
       /\ Len(out.res.u_cases) = 1) =>
        RowHasUnitNorm(out.res.dtrs_mean, 1)

IsIntList(angle) ==
    angle.t = "list" /\ \A i \in DOMAIN angle.elems : angle.elems[i].t = "int"

\* C6: get_dtr with a non-empty list of int angles computes one descriptor
\* per angle and returns their mean over its L2 norm, a vector of norm 1.
C6_AngleListGivesUnitNorm ==
    (call.op = "get_dtr" /\ ~call.multi_scale
       /\ IsIntList(call.angle) /\ call.angle.elems # <<>>) =>
        Ok /\ out.res.normalized /\ Len(out.fwd) = Len(call.angle.elems)

\* C7: get_dtr with multi_scale=True returns a vector of length
\* 2*output_dim.
C7_MultiScaleDoublesLength ==
    (call.op = "get_dtr" /\ call.multi_scale /\ call.angle.t \in {"none", "int"}) =>
        Ok /\ Entries(out.res.shape) = 2 * self.output_dim

\* C8: get_dtr raises the invalid-input error for an angle that is neither
\* absent, nor an int, nor a list of ints only, and never for an absent or
\* int angle.  Stated for the angles that hold no int at all (a float, or a
\* list of non-ints; the ValueError of an empty list counts as rejected).
C8_InvalidAngleRejected ==
    (call.op = "get_dtr" /\ ~call.multi_scale) =>
        /\ call.angle.t = "float" => out.res.err = "Exception"
        /\ call.angle.t \in {"none", "int"} => out.res.err # "Exception"
        /\ (call.angle.t = "list" /\ \A i \in DOMAIN call.angle.elems : call.angle.elems[i].t # "int") =>
              out.res.err \in {"Exception", "ValueError"}

C10_ResizeProportional ==
    (call.op = "get_dtr" /\ out.x # None) =>
        LET x == out.x[1] IN
        IF call.size # None THEN x.h = call.size[1] /\ x.w = call.size[1]
        ELSE IF call.scale # None
             THEN x.h = IntTimes(call.img.h, call.scale[1]) /\ x.w = IntTimes(call.img.w, call.scale[1])
             ELSE x.h = call.img.h /\ x.w = call.img.w

====
